---- MODULE Spec2Model ----
(***************************************************************************)
(* Model of the RSSI dashboard (src/src/App.tsx) and of its earlier        *)
(* variant with the mock predictor (src/unnamed/part_000).                 *)
(*                                                                         *)
(* Encodings                                                               *)
(*  - an optional value (a JSON field that may be absent, a React state    *)
(*    that may be null) is a sequence of length 0 or 1: <<>> or <<v>>;     *)
(*  - instants are integers in milliseconds (Date.getTime());              *)
(*  - a JSON number of a feature is an integer count of hundredths;        *)
(*  - a JS string that shows a number is a record                          *)
(*      [dashes |-> FALSE, scaled |-> hundredths, decimals |-> digits]     *)
(*    and the string '--' is [dashes |-> TRUE, scaled |-> 0, decimals |-> 0]*)
(***************************************************************************)
EXTENDS Integers, Sequences, FiniteSets, TLC

VARIABLES
    rssiHistory,    \* App.tsx: DataPoint[] state
    latestRssi,     \* App.tsx: number | null
    prediction,     \* App.tsx: Prediction state (a string)
    confidence,     \* App.tsx: number
    connected,      \* App.tsx: boolean
    mlFeatures,     \* App.tsx: MLFeatures | null
    now,            \* the wall clock read by new Date()
    lastMessage,    \* the message whose handler ran last
    nData,          \* data-topic messages delivered so far
    nPred,          \* prediction-topic messages delivered so far
    rssiHistoryP0,  \* part_000: DataPoint[] state
    latestRssiP0,   \* part_000: number | null
    predictionP0,   \* part_000: Prediction state
    confidenceP0,   \* part_000: number
    connectedP0,    \* part_000: boolean
    nDataP0,        \* part_000: messages delivered so far
    renderedPrediction, \* part_001: prediction as of the last effect run
    prevPredRef,    \* part_001: prevPredRef.current
    eventLog,       \* part_001: { state, time }[] state
    predDistribution, \* part_001: { moving, idle, empty, total } state
    logged,         \* part_001: every entry the effect has logged, in order
    activityLog,    \* Firestore collection activity_log, oldest document first
    entries,        \* ActivityLog.tsx: ActivityLogEntry[] state of the page
    updateQueue,    \* setRssiHistory updaters queued until the next render
    accepted,       \* every data point accepted so far, in arrival order
    pipeWindow,     \* the WindowBuffer of the prediction pipeline
    clients         \* the MQTT clients the effect has created, oldest first

appVars == <<rssiHistory, latestRssi, prediction, confidence, connected, mlFeatures, nData, nPred>>
p0Vars == <<rssiHistoryP0, latestRssiP0, predictionP0, confidenceP0, connectedP0, nDataP0>>
p1Vars == <<renderedPrediction, prevPredRef, eventLog, predDistribution, logged>>
logVars == <<activityLog, entries>>
floodVars == <<updateQueue, accepted>>
strictVars == <<clients>>
extVars == <<p1Vars, logVars, floodVars, pipeWindow, strictVars>>
vars == <<rssiHistory, latestRssi, prediction, confidence, connected, mlFeatures,
          now, lastMessage, nData, nPred,
          rssiHistoryP0, latestRssiP0, predictionP0, confidenceP0, connectedP0, nDataP0,
          renderedPrediction, prevPredRef, eventLog, predDistribution, logged,
          activityLog, entries, updateQueue, accepted, pipeWindow, clients>>

(*************************** bounds of the model ***************************)
MaxData == 3        \* data-topic messages delivered to one dashboard
MaxPred == 2        \* prediction-topic messages delivered
MaxDataP0 == 2      \* messages delivered to the earlier dashboard variant
MaxDocs == 202      \* documents written to activity_log
FixedDocs == 199    \* the first documents alternate IDLE, MOVING
MaxEvents == 22     \* prediction messages of a long session
MaxFlood == 302     \* sensor messages of a flood (more than both caps)
MaxQueue == 2       \* message callbacks queued before a render
MaxMsgs == 2        \* messages handled on either topic, topics mixed
MaxPipeSamples == 3 \* samples held by the pipeline's window
MaxTime == 9000     \* the clock stops advancing here (ms)
TickSteps == {9000} \* how far the clock advances in one step (ms)
RssiValues == {-70, -55}            \* rssi values the sensor sends
MsgTimestamps == {5}                \* timestamp values the sensor sends
RssiValuesP0 == {-70, -65, -55}     \* ... to the earlier dashboard variant
ConfidenceValues == {87, 250}       \* confidence values a message carries

(***************************** program constants **************************)
MQTT_TOPIC_DATA == "esp32/rssi/data"
MQTT_TOPIC_PREDICTION == "esp32/rssi/prediction"
DefaultRssi == -100
HistoryCap == 120
FallbackGate == 3
FallbackWindow == 25
HistoryKeepP0 == 299
RandomConfidenceP0 == 70..99        \* Math.floor(Math.random() * 30) + 70
WindowSpanMs == 8000
EventLogKeepP1 == 19                \* prev.slice(-19)
MaxEntries == 200                   \* subscribeActivityLog(firestore, 200, ...)
SpikeThreshold == 5
PipeMinSamples == 2                 \* the pipeline's minimum sample count
PipeLabels == {"EMPTY", "IDLE", "MOVING"}
PipeConfidences == {87}             \* confidences the classifier yields

(****************************** small helpers *****************************)
None == <<>>
Some(v) == <<v>>
Opt(S) == {None} \cup {Some(v) : v \in S}
IsSome(o) == Len(o) = 1
Get(o) == o[1]
\* JavaScript's  o ?? d
Nullish(o, d) == IF IsSome(o) THEN Get(o) ELSE d

\* Array.prototype.slice(-k)
SliceLast(s, k) == IF Len(s) <= k THEN s ELSE SubSeq(s, Len(s) - k + 1, Len(s))

Abs(x) == IF x < 0 THEN -x ELSE x

(**************************** JavaScript values ****************************)
\* A JS string showing a number, and the string '--'.
Dashes == [dashes |-> TRUE, scaled |-> 0, decimals |-> 0]
NumStr(scaled, decimals) == [dashes |-> FALSE, scaled |-> scaled, decimals |-> decimals]

\* String(x) of a JSON number given in hundredths: the shortest decimal form.
StringOfNumber(h) ==
    IF h % 100 = 0 THEN NumStr(h, 0)
    ELSE IF h % 10 = 0 THEN NumStr(h, 1)
    ELSE NumStr(h, 2)

\* Round the rational p/q (q > 0) to the nearest integer, ties away from zero:
\* what Number.prototype.toFixed does with a value that is an exact tie.
RoundDiv(p, q) ==
    LET a == Abs(p)
        r == (2 * a + q) \div (2 * q)
    IN  IF p < 0 THEN -r ELSE r

\* String.prototype.toUpperCase on the strings a message can carry.
ToUpperCase(s) ==
    CASE s = "moving" -> "MOVING"
      [] s = "Idle" -> "IDLE"
      [] s = "empty" -> "EMPTY"
      [] s = "waiting" -> "WAITING"
      [] s = "sitting" -> "SITTING"
      [] OTHER -> s

\* Date.toLocaleTimeString([], {hour12: false, 2-digit h/m/s}) of an instant
\* in ms, in the zone of offset 0: <<hours, minutes, seconds>>.
ToLocaleTimeString(ms) ==
    LET secs == (ms \div 1000) % 86400
    IN  <<secs \div 3600, (secs % 3600) \div 60, secs % 60>>

(********************************* messages ********************************)
\* What JSON.parse makes of a payload: json = "malformed" (it throws),
\* "null" (the value null) or "object" with the optional fields below.
\* A prediction field is [isString, str]; features is an object whose
\* numeric fields are in hundredths.
StrVal(s) == [isString |-> TRUE, str |-> s]
NonStrVal == [isString |-> FALSE, str |-> "7"]

Payload(json, rssi, timestamp, pred, conf, feat) ==
    [json |-> json, rssi |-> rssi, timestamp |-> timestamp,
     prediction |-> pred, confidence |-> conf, features |-> feat]

Malformed == Payload("malformed", None, None, None, None, None)
JsonNull == Payload("null", None, None, None, None, None)

FeatureObjects ==
    { [mean_rssi |-> Some(-6625), std_rssi |-> Some(650), min_rssi |-> Some(-7000),
       max_rssi |-> Some(-5500), range_rssi |-> Some(1500),
       spike_count |-> Some(1), spike_rate |-> Some(2500)] }

PredictionStrings == {"moving", "sitting"}

DataPayloads ==
    {Malformed, JsonNull}
    \cup { Payload("object", r, t, None, None, None) :
             r \in Opt(RssiValues), t \in Opt(MsgTimestamps) }

DataPayloadsP0 ==
    {Malformed, JsonNull}
    \cup { Payload("object", r, None, None, None, None) : r \in Opt(RssiValuesP0) }

PredictionPayloads ==
    {Malformed, JsonNull}
    \cup { Payload("object", None, None, p, c, f) :
             p \in Opt({StrVal(s) : s \in PredictionStrings} \cup {NonStrVal}),
             c \in Opt(ConfidenceValues),
             f \in Opt(FeatureObjects) }

\* payloads that carry the fields of both kinds of message
MixedPayloads ==
    { Malformed,
      Payload("object", None, None, None, None, None),
      Payload("object", Some(-55), None, Some(StrVal("moving")), Some(87),
              Some(CHOOSE f \in FeatureObjects : TRUE)),
      Payload("object", Some(-70), Some(5), Some(NonStrVal), Some(250), None) }

MQTT_TOPIC_OTHER == "esp32/rssi/other"
Topics == {MQTT_TOPIC_DATA, MQTT_TOPIC_PREDICTION, MQTT_TOPIC_OTHER}

Message(topic, payload) == [topic |-> topic, payload |-> payload]
NoMessage == Message("", Malformed)

(************************ App.tsx: the message handler *********************)
\* const rssi = data.rssi ?? -100
RssiOf(data) == Nullish(data.rssi, DefaultRssi)

\* The DataPoint built from a data message received at instant t.
DataPoint(rssi, t) == [time |-> ToLocaleTimeString(t), rssi |-> rssi, timestamp |-> t]

\* Mutant of AppendPoint: nothing is evicted.
AppendPointUncapped(prev, point) == Append(prev, point)

\* Mutant of AppendPoint: the new point is put in front ([point, ...prev]).
AppendPointFront(prev, point) ==
    LET next == <<point>> \o prev
    IN  IF Len(next) > HistoryCap THEN SliceLast(next, HistoryCap) ELSE next

\* setRssiHistory(prev => ...): append, keep the newest HistoryCap points.
AppendPoint(prev, point) ==
    LET next == Append(prev, point)
    IN  IF Len(next) > HistoryCap THEN SliceLast(next, HistoryCap) ELSE next

\* (data.prediction ?? 'WAITING').toUpperCase() throws on a non-string.
PredictionThrows(data) ==
    IsSome(data.prediction) /\ ~Get(data.prediction).isString

PredOf(data) ==
    IF IsSome(data.prediction) THEN ToUpperCase(Get(data.prediction).str)
    ELSE ToUpperCase("WAITING")

\* Mutant of ConfidenceOf: a missing confidence defaults to 100.
ConfidenceOfDefault100(data) == Nullish(data.confidence, 100)

\* data.confidence ?? 0
ConfidenceOf(data) == Nullish(data.confidence, 0)

\* String(x ?? '--') of a feature field
FeatureString(field) == IF IsSome(field) THEN StringOfNumber(Get(field)) ELSE Dashes

\* Mutant of MlFeaturesOf: spikeRate is read from spike_count.
MlFeaturesOfRateFromCount(f) ==
    [mean |-> FeatureString(f.mean_rssi),
     std |-> FeatureString(f.std_rssi),
     min |-> FeatureString(f.min_rssi),
     max |-> FeatureString(f.max_rssi),
     range |-> FeatureString(f.range_rssi),
     spikeCount |-> Nullish(f.spike_count, 0),
     spikeRate |-> FeatureString(f.spike_count)]

\* The MLFeatures object built from data.features.
MlFeaturesOf(f) ==
    [mean |-> FeatureString(f.mean_rssi),
     std |-> FeatureString(f.std_rssi),
     min |-> FeatureString(f.min_rssi),
     max |-> FeatureString(f.max_rssi),
     range |-> FeatureString(f.range_rssi),
     spikeCount |-> Nullish(f.spike_count, 0),
     spikeRate |-> FeatureString(f.spike_rate)]

\* The data branch of client.on('message').
HandleData(data) ==
    IF data.json # "object"
    THEN UNCHANGED <<rssiHistory, latestRssi>>      \* thrown and caught
    ELSE /\ latestRssi' = Some(RssiOf(data))
         /\ rssiHistory' = AppendPoint(rssiHistory, DataPoint(RssiOf(data), now))

\* Mutant of HandlePrediction: confidence is stored before toUpperCase throws.
HandlePredictionPartial(data) ==
    IF data.json # "object"
    THEN UNCHANGED <<prediction, confidence, mlFeatures>>
    ELSE IF PredictionThrows(data)
    THEN /\ confidence' = ConfidenceOf(data)
         /\ UNCHANGED <<prediction, mlFeatures>>
    ELSE /\ prediction' = PredOf(data)
         /\ confidence' = ConfidenceOf(data)
         /\ mlFeatures' = IF IsSome(data.features)
                          THEN Some(MlFeaturesOf(Get(data.features)))
                          ELSE mlFeatures

\* Mutant of HandlePrediction: a message without features clears mlFeatures.
HandlePredictionClearsFeatures(data) ==
    IF data.json # "object" \/ PredictionThrows(data)
    THEN UNCHANGED <<prediction, confidence, mlFeatures>>
    ELSE /\ prediction' = PredOf(data)
         /\ confidence' = ConfidenceOf(data)
         /\ mlFeatures' = IF IsSome(data.features)
                          THEN Some(MlFeaturesOf(Get(data.features)))
                          ELSE None

\* The prediction branch of client.on('message').
HandlePrediction(data) ==
    IF data.json # "object" \/ PredictionThrows(data)
    THEN UNCHANGED <<prediction, confidence, mlFeatures>>   \* thrown and caught
    ELSE /\ prediction' = PredOf(data)
         /\ confidence' = ConfidenceOf(data)
         /\ mlFeatures' = IF IsSome(data.features)
                          THEN Some(MlFeaturesOf(Get(data.features)))
                          ELSE mlFeatures

\* Mutant of HandleMessage: both branches run whatever the topic.
HandleMessageUnframed(topic, data) ==
    /\ HandleData(data)
    /\ HandlePrediction(data)

\* client.on('message', (topic, message) => ...): the whole handler
HandleMessage(topic, data) ==
    /\ IF topic = MQTT_TOPIC_DATA
       THEN HandleData(data)
       ELSE UNCHANGED <<rssiHistory, latestRssi>>
    /\ IF topic = MQTT_TOPIC_PREDICTION
       THEN HandlePrediction(data)
       ELSE UNCHANGED <<prediction, confidence, mlFeatures>>

(************************* App.tsx: displayFeatures ************************)
RECURSIVE SeqSum(_)
SeqSum(s) == IF s = <<>> THEN 0 ELSE s[1] + SeqSum(Tail(s))

RECURSIVE SeqSumSq(_)
SeqSumSq(s) == IF s = <<>> THEN 0 ELSE s[1] * s[1] + SeqSumSq(Tail(s))

SeqMin(s) == CHOOSE x \in {s[i] : i \in 1..Len(s)} : \A j \in 1..Len(s) : x <= s[j]
SeqMax(s) == CHOOSE x \in {s[i] : i \in 1..Len(s)} : \A j \in 1..Len(s) : x >= s[j]

\* floor(sqrt(x)) for x >= 0, by bisection on lo..hi (lo*lo <= x < (hi+1)^2)
RECURSIVE ISqrtIn(_, _, _)
ISqrtIn(x, lo, hi) ==
    IF lo = hi THEN lo
    ELSE LET mid == (lo + hi + 1) \div 2
         IN  IF mid * mid <= x THEN ISqrtIn(x, mid, hi) ELSE ISqrtIn(x, lo, mid - 1)
ISqrt(x) == ISqrtIn(x, 0, IF x < 46340 THEN x ELSE 46340)   \* 46340^2 < 2^31

\* rssiHistory.slice(-25).map(d => d.rssi)
Win(hist) ==
    LET w == SliceLast(hist, FallbackWindow)
    IN  [i \in 1..Len(w) |-> w[i].rssi]

\* The points of rssiHistory that Win draws from.
WinPoints(hist) == SliceLast(hist, FallbackWindow)

\* range = Math.max(...win) - Math.min(...win)
Range(win) == SeqMax(win) - SeqMin(win)

\* Mutant of MeanFixed: the sum is divided by n - 1.
MeanFixedNMinus1(win) == NumStr(10 * RoundDiv(10 * SeqSum(win), Len(win) - 1), 1)

\* mean.toFixed(1), in hundredths: mean = sum / n
MeanFixed(win) == NumStr(10 * RoundDiv(10 * SeqSum(win), Len(win)), 1)

\* std.toFixed(2), in hundredths: std = sqrt(sum((b - mean)^2) / n)
\*   = sqrt(V) / n  with  V = n * sum(b^2) - sum(b)^2
\* (the double arithmetic of the code is taken as exact)
StdFixed(win) ==
    LET n == Len(win)
        V == n * SeqSumSq(win) - SeqSum(win) * SeqSum(win)
    IN  NumStr((ISqrt(40000 * V) + n) \div (2 * n), 2)

\* range.toFixed(1), in hundredths
RangeFixed(win) == NumStr(100 * Range(win), 1)

\* Mutant of DisplayFeatures: the gate lets any non-empty history through.
DisplayFeaturesUngated(hist, ml) ==
    IF IsSome(ml)
    THEN [mean |-> Get(ml).mean, std |-> Get(ml).std, range |-> Get(ml).range]
    ELSE IF Len(hist) < 1
    THEN [mean |-> Dashes, std |-> Dashes, range |-> Dashes]
    ELSE [mean |-> MeanFixed(Win(hist)), std |-> StdFixed(Win(hist)),
          range |-> RangeFixed(Win(hist))]

\* useMemo(() => ..., [rssiHistory, mlFeatures])
DisplayFeatures(hist, ml) ==
    IF IsSome(ml)
    THEN [mean |-> Get(ml).mean, std |-> Get(ml).std, range |-> Get(ml).range]
    ELSE IF Len(hist) < FallbackGate
    THEN [mean |-> Dashes, std |-> Dashes, range |-> Dashes]
    ELSE [mean |-> MeanFixed(Win(hist)), std |-> StdFixed(Win(hist)),
          range |-> RangeFixed(Win(hist))]

displayFeatures == DisplayFeatures(rssiHistory, mlFeatures)

\* {confidence > 0 && prediction !== 'WAITING' && (...)}: the confidence bar
ConfidenceShown == confidence > 0 /\ prediction # "WAITING"

\* const state = stateMap[prediction]: only these keys are defined
StateMapKeys == {"EMPTY", "IDLE", "MOVING", "WAITING"}

(***************************** App.tsx: actions ****************************)
Init ==
    /\ rssiHistory = <<>>
    /\ latestRssi = None
    /\ prediction = "WAITING"
    /\ confidence = 0
    /\ connected = FALSE
    /\ mlFeatures = None
    /\ now = 0
    /\ lastMessage = NoMessage
    /\ nData = 0
    /\ nPred = 0
    /\ rssiHistoryP0 = <<>>
    /\ latestRssiP0 = None
    /\ predictionP0 = "WAITING"
    /\ confidenceP0 = 0
    /\ connectedP0 = FALSE
    /\ nDataP0 = 0
    /\ renderedPrediction = "WAITING"
    /\ prevPredRef = ""
    /\ eventLog = <<>>
    /\ predDistribution = [moving |-> 0, idle |-> 0, empty |-> 0, total |-> 0]
    /\ activityLog = <<>>
    /\ entries = <<>>
    /\ updateQueue = <<>>
    /\ accepted = <<>>
    /\ pipeWindow = <<>>
    /\ logged = <<>>
    /\ clients = <<>>

\* client.on('connect'): the client comes up (first connection or reconnect)
Connect ==
    /\ ~connected
    /\ connected' = TRUE
    /\ UNCHANGED <<rssiHistory, latestRssi, prediction, confidence, mlFeatures,
                   now, lastMessage, nData, nPred>>
    /\ UNCHANGED <<p0Vars, extVars>>

\* Mutant of Close: a disconnect also forgets the ML features.
CloseResetsFeatures ==
    /\ connected' = FALSE
    /\ mlFeatures' = None
    /\ UNCHANGED <<rssiHistory, latestRssi, prediction, confidence,
                   now, lastMessage, nData, nPred>>
    /\ UNCHANGED <<p0Vars, extVars>>

\* client.on('close'): the connection is lost (or an attempt failed)
Close ==
    /\ connected' = FALSE
    /\ UNCHANGED <<rssiHistory, latestRssi, prediction, confidence, mlFeatures,
                   now, lastMessage, nData, nPred>>
    /\ UNCHANGED <<p0Vars, extVars>>

\* Mutant of MqttError: an error marks the dashboard disconnected.
MqttErrorDisconnects ==
    /\ connected' = FALSE
    /\ UNCHANGED <<rssiHistory, latestRssi, prediction, confidence,
                   mlFeatures, now, lastMessage, nData, nPred>>
    /\ UNCHANGED <<p0Vars, extVars>>

\* client.on('error', console.error)
MqttError ==
    /\ UNCHANGED <<rssiHistory, latestRssi, prediction, confidence, connected,
                   mlFeatures, now, lastMessage, nData, nPred>>
    /\ UNCHANGED <<p0Vars, extVars>>

\* client.on('message') with topic === MQTT_TOPIC_DATA
DataMessage ==
    /\ connected
    /\ nData < MaxData
    /\ \E data \in DataPayloads :
         /\ HandleData(data)
         /\ lastMessage' = Message(MQTT_TOPIC_DATA, data)
    /\ nData' = nData + 1
    /\ UNCHANGED <<prediction, confidence, mlFeatures, connected, now, nPred>>
    /\ UNCHANGED <<p0Vars, extVars>>

\* client.on('message') with topic === MQTT_TOPIC_PREDICTION
PredictionMessage ==
    /\ connected
    /\ nPred < MaxPred
    /\ \E data \in PredictionPayloads :
         /\ HandlePrediction(data)
         /\ lastMessage' = Message(MQTT_TOPIC_PREDICTION, data)
    /\ nPred' = nPred + 1
    /\ UNCHANGED <<rssiHistory, latestRssi, connected, now, nData>>
    /\ UNCHANGED <<p0Vars, extVars>>

\* time passes between events
Tick ==
    /\ \E d \in TickSteps :
         /\ now + d <= MaxTime
         /\ now' = now + d
    /\ UNCHANGED <<appVars, lastMessage>>
    /\ UNCHANGED <<p0Vars, extVars>>

Next ==
    \/ Connect
    \/ Close
    \/ MqttError
    \/ DataMessage
    \/ PredictionMessage
    \/ Tick

Spec == Init /\ [][Next]_vars

(******************** part_000: the earlier dashboard variant **************)
\* const mockPred = rssi > -60 ? 'MOVING' : rssi > -70 ? 'IDLE' : 'EMPTY'
MockPred(rssi) == IF rssi > -60 THEN "MOVING" ELSE IF rssi > -70 THEN "IDLE" ELSE "EMPTY"

\* setRssiHistory(prev => [...prev.slice(-299), { time: now, rssi }])
AppendPointP0(prev, point) == Append(SliceLast(prev, HistoryKeepP0), point)

\* mqttClient.on('connect'); this variant has no 'close' handler
ConnectP0 ==
    /\ connectedP0' = TRUE
    /\ UNCHANGED <<rssiHistoryP0, latestRssiP0, predictionP0, confidenceP0, nDataP0>>
    /\ UNCHANGED <<appVars, now, lastMessage, extVars>>

\* mqttClient.on('message'): the topic is not looked at
MessageP0 ==
    /\ connectedP0
    /\ nDataP0 < MaxDataP0
    /\ \E data \in DataPayloadsP0 :
         /\ lastMessage' = Message(MQTT_TOPIC_DATA, data)
         /\ IF data.json # "object"
            THEN UNCHANGED <<rssiHistoryP0, latestRssiP0, predictionP0, confidenceP0>>
            ELSE /\ latestRssiP0' = Some(RssiOf(data))
                 /\ rssiHistoryP0' = AppendPointP0(rssiHistoryP0,
                        [time |-> ToLocaleTimeString(now), rssi |-> RssiOf(data)])
                 /\ predictionP0' = MockPred(RssiOf(data))
                 /\ \E c \in RandomConfidenceP0 : confidenceP0' = c
    /\ nDataP0' = nDataP0 + 1
    /\ UNCHANGED <<connectedP0, appVars, now, extVars>>

TickP0 ==
    /\ \E d \in TickSteps :
         /\ now + d <= MaxTime
         /\ now' = now + d
    /\ UNCHANGED <<appVars, lastMessage>>
    /\ UNCHANGED <<p0Vars, extVars>>

NextP0 ==
    \/ ConnectP0
    \/ MessageP0
    \/ TickP0

SpecP0 == Init /\ [][NextP0]_vars

(******************* lib/activityLog.ts and the log page *******************)
\* The activity_log collection is kept as the sequence of its documents in
\* createdAt order, oldest first; the server stamps createdAt on arrival.
ActivityStates == {"EMPTY", "IDLE", "MOVING", "WAITING"}

ActivityInput(state, time, conf) == [state |-> state, time |-> time, confidence |-> conf]

\* what the writers log: an alternating stream first, any state afterwards
LogInputs(n) ==
    IF n < FixedDocs
    THEN { ActivityInput(IF n % 2 = 1 THEN "MOVING" ELSE "IDLE", ToLocaleTimeString(now), None) }
    ELSE { ActivityInput(st, ToLocaleTimeString(now), IF st = "IDLE" THEN None ELSE Some(87)) :
             st \in ActivityStates }

\* addDoc(col, {state, time, confidence: input.confidence ?? null, createdAt: serverTimestamp()})
AddDoc(col, input) ==
    Append(col, [id |-> Len(col) + 1,
                 state |-> Some(input.state),
                 time |-> Some(input.time),
                 confidence |-> input.confidence,
                 createdAt |-> Some(Len(col) + 1)])

Reverse(s) == [i \in 1..Len(s) |-> s[Len(s) + 1 - i]]

\* query(col, orderBy('createdAt', 'desc'), limit(maxEntries))
Query(col, maxEntries) ==
    LET desc == Reverse(col)
    IN  IF Len(desc) <= maxEntries THEN desc ELSE SubSeq(desc, 1, maxEntries)

\* snapshot.docs.map(doc => ({id, state ?? 'WAITING', time ?? '--', timestamp, confidence}))
EntryOf(doc) ==
    [id |-> doc.id,
     state |-> Nullish(doc.state, "WAITING"),
     time |-> doc.time,
     timestamp |-> Nullish(doc.createdAt, 0),
     confidence |-> doc.confidence]

EntriesOf(docs) == [i \in 1..Len(docs) |-> EntryOf(docs[i])]

\* Mutant of MovingOnly: the page shows the entries of every state.
KeepAll(list) == list

\* list.filter((e) => e.state === 'MOVING')
MovingOnly(list) ==
    LET IsMoving(e) == e.state = "MOVING"
    IN  SelectSeq(list, IsMoving)

\* logActivityEvent(db, input), called by a writer of the collection
LogActivityEvent ==
    /\ Len(activityLog) < MaxDocs
    /\ \E input \in LogInputs(Len(activityLog)) :
         activityLog' = AddDoc(activityLog, input)
    /\ UNCHANGED <<appVars, now, lastMessage, entries>>
    /\ UNCHANGED <<p0Vars, p1Vars, floodVars, pipeWindow, strictVars>>

\* onSnapshot delivers the query's result to the page's callback
OnSnapshot ==
    /\ entries' = MovingOnly(EntriesOf(Query(activityLog, MaxEntries)))
    /\ UNCHANGED <<appVars, now, lastMessage, activityLog>>
    /\ UNCHANGED <<p0Vars, p1Vars, floodVars, pipeWindow, strictVars>>

NextLog ==
    \/ LogActivityEvent
    \/ OnSnapshot

SpecLog == Init /\ [][NextLog]_vars

(**************** part_001: the later dashboard's event log ****************)
\* The MQTT handlers of part_001 are those of App.tsx; it adds an effect that
\* runs after a render in which prediction differs from the previous render.
BumpDistribution(prev, pred) ==
    [moving |-> prev.moving + (IF pred = "MOVING" THEN 1 ELSE 0),
     idle |-> prev.idle + (IF pred = "IDLE" THEN 1 ELSE 0),
     empty |-> prev.empty + (IF pred = "EMPTY" THEN 1 ELSE 0),
     total |-> prev.total + 1]

\* Mutant of AppendEvent: slice(-20) keeps one entry too many.
AppendEventKeeps20(prev, entry) == Append(SliceLast(prev, EventLogKeepP1 + 1), entry)

\* setEventLog(prev => [...prev.slice(-19), { state: prediction, time }])
AppendEvent(prev, entry) == Append(SliceLast(prev, EventLogKeepP1), entry)

\* Mutant of EffectP1: prevPredRef is not consulted.
EffectP1NoRef ==
    /\ prediction # renderedPrediction
    /\ renderedPrediction' = prediction
    /\ IF prediction # "WAITING"
       THEN /\ prevPredRef' = prediction
            /\ eventLog' = AppendEvent(eventLog,
                                  [state |-> prediction, time |-> ToLocaleTimeString(now)])
            /\ predDistribution' = BumpDistribution(predDistribution, prediction)
            /\ logged' = Append(logged,
                                [state |-> prediction, time |-> ToLocaleTimeString(now)])
       ELSE UNCHANGED <<prevPredRef, eventLog, predDistribution, logged>>
    /\ UNCHANGED <<appVars, now, lastMessage>>
    /\ UNCHANGED <<p0Vars, logVars, floodVars, pipeWindow, strictVars>>

\* useEffect(() => {...}, [prediction])
EffectP1 ==
    /\ prediction # renderedPrediction
    /\ renderedPrediction' = prediction
    /\ IF prediction # "WAITING" /\ prediction # prevPredRef
       THEN /\ prevPredRef' = prediction
            /\ eventLog' = AppendEvent(eventLog,
                                  [state |-> prediction, time |-> ToLocaleTimeString(now)])
            /\ predDistribution' = BumpDistribution(predDistribution, prediction)
            /\ logged' = Append(logged,
                                [state |-> prediction, time |-> ToLocaleTimeString(now)])
       ELSE UNCHANGED <<prevPredRef, eventLog, predDistribution, logged>>
    /\ UNCHANGED <<appVars, now, lastMessage>>
    /\ UNCHANGED <<p0Vars, logVars, floodVars, pipeWindow, strictVars>>

NextP1 ==
    \/ Connect
    \/ Close
    \/ PredictionMessage
    \/ EffectP1
    \/ OnSnapshot
    \/ Tick

SpecP1 == Init /\ [][NextP1]_vars

\* A long session of part_001: predictions keep changing.
EventPayloads ==
    { Payload("object", None, None, p, None, None) :
        p \in Opt({StrVal("moving"), StrVal("Idle")}) }

\* client.on('message') with topic === MQTT_TOPIC_PREDICTION
EventMessage ==
    /\ connected
    /\ nPred < MaxEvents
    /\ \E data \in EventPayloads :
         /\ HandlePrediction(data)
         /\ lastMessage' = Message(MQTT_TOPIC_PREDICTION, data)
    /\ nPred' = nPred + 1
    /\ UNCHANGED <<rssiHistory, latestRssi, connected, now, nData>>
    /\ UNCHANGED <<p0Vars, extVars>>

NextEvents ==
    \/ Connect
    \/ Close
    \/ EventMessage
    \/ EffectP1

SpecEvents == Init /\ [][NextEvents]_vars

(************************ a flood of sensor messages ***********************)
FloodPayload == Payload("object", Some(-55), None, None, None, None)
FloodGap == 1       \* ms between two arrivals

\* Mutant of ApplyUpdates: every queued update is computed from the history
\* of the last render (setRssiHistory([...rssiHistory, point])).
ApplyUpdatesStale(hist, queue) ==
    IF queue = <<>> THEN hist ELSE AppendPoint(hist, queue[Len(queue)])

\* React runs the queued updaters prev => ... in order, each on the result
\* of the one before.
RECURSIVE ApplyUpdates(_, _)
ApplyUpdates(hist, queue) ==
    IF queue = <<>> THEN hist
    ELSE ApplyUpdates(AppendPoint(hist, Head(queue)), Tail(queue))

\* One sensor message reaches both dashboards: App.tsx queues its updates
\* until the next render, part_000 handles it as MessageP0 does.
FloodMessage ==
    /\ connected
    /\ connectedP0
    /\ nData < MaxFlood
    /\ Len(updateQueue) < MaxQueue
    /\ now' = now + FloodGap
    /\ LET data == FloodPayload
           rssi == RssiOf(data)
       IN  /\ updateQueue' = Append(updateQueue, DataPoint(rssi, now'))
           /\ accepted' = Append(accepted, DataPoint(rssi, now'))
           /\ lastMessage' = Message(MQTT_TOPIC_DATA, data)
           /\ latestRssiP0' = Some(rssi)
           /\ rssiHistoryP0' = AppendPointP0(rssiHistoryP0,
                  [time |-> ToLocaleTimeString(now'), rssi |-> rssi])
           /\ predictionP0' = MockPred(rssi)
           /\ \E c \in RandomConfidenceP0 : confidenceP0' = c
    /\ nData' = nData + 1
    /\ nDataP0' = nDataP0 + 1
    /\ UNCHANGED <<rssiHistory, latestRssi, prediction, confidence, connected,
                   mlFeatures, nPred, connectedP0>>
    /\ UNCHANGED <<p1Vars, logVars, pipeWindow, strictVars>>

\* React renders: the queued state updates of App.tsx are applied
Render ==
    /\ updateQueue # <<>>
    /\ rssiHistory' = ApplyUpdates(rssiHistory, updateQueue)
    /\ latestRssi' = Some(updateQueue[Len(updateQueue)].rssi)
    /\ updateQueue' = <<>>
    /\ UNCHANGED <<prediction, confidence, connected, mlFeatures, now,
                   lastMessage, nData, nPred, accepted>>
    /\ UNCHANGED <<p0Vars, p1Vars, logVars, pipeWindow, strictVars>>

NextFlood ==
    \/ Connect
    \/ ConnectP0
    \/ FloodMessage
    \/ Render

SpecFlood == Init /\ [][NextFlood]_vars

(********************** App.tsx: messages on any topic *********************)
\* client.on('message') for a message of any topic and any JSON shape
TopicMessage ==
    /\ connected
    /\ \E topic \in Topics, data \in MixedPayloads :
         /\ topic # MQTT_TOPIC_OTHER => nData + nPred < MaxMsgs
         /\ HandleMessage(topic, data)
         /\ lastMessage' = Message(topic, data)
         /\ nData' = IF topic = MQTT_TOPIC_DATA THEN nData + 1 ELSE nData
         /\ nPred' = IF topic = MQTT_TOPIC_PREDICTION THEN nPred + 1 ELSE nPred
    /\ UNCHANGED <<connected, now>>
    /\ UNCHANGED <<p0Vars, extVars>>

NextTopics ==
    \/ Connect
    \/ Close
    \/ TopicMessage
    \/ Tick

SpecTopics == Init /\ [][NextTopics]_vars

(***************** App.tsx under main.tsx: the MQTT effect *****************)
\* A client made by mqtt.connect: status is "connecting", "connected" or
\* "closed"; ended is set by client.end().  The handlers the effect attached
\* stay attached after end(): the cleanup removes none of them.
NewClient == [status |-> "connecting", ended |-> FALSE]
EndClient(c) == [c EXCEPT !.ended = TRUE]
Live(c) == ~c.ended

\* the effect runs once: a production build
MountEffect ==
    /\ clients = <<>>
    /\ clients' = <<NewClient>>
    /\ UNCHANGED <<appVars, now, lastMessage>>
    /\ UNCHANGED <<p0Vars, p1Vars, logVars, floodVars, pipeWindow>>

\* <StrictMode> in a development build: effect, cleanup and effect again run
\* in one commit, before any event of a client is delivered
StrictModeMount ==
    /\ clients = <<>>
    /\ clients' = <<EndClient(NewClient), NewClient>>
    /\ UNCHANGED <<appVars, now, lastMessage>>
    /\ UNCHANGED <<p0Vars, p1Vars, logVars, floodVars, pipeWindow>>

\* client.on('connect') of a client that was not ended
ClientConnect ==
    /\ \E i \in 1..Len(clients) :
         /\ clients[i].status = "connecting"
         /\ Live(clients[i])
         /\ clients' = [clients EXCEPT ![i].status = "connected"]
    /\ connected' = TRUE
    /\ UNCHANGED <<rssiHistory, latestRssi, prediction, confidence, mlFeatures,
                   now, lastMessage, nData, nPred>>
    /\ UNCHANGED <<p0Vars, p1Vars, logVars, floodVars, pipeWindow>>

\* client.on('close') of any client: a live client lost its connection (it
\* reconnects by itself), an ended client's stream has closed
ClientClose ==
    /\ \E i \in 1..Len(clients) :
         /\ clients[i].status # "closed"
         /\ clients' = [clients EXCEPT
                          ![i].status = IF Live(clients[i]) THEN "connecting" ELSE "closed"]
    /\ connected' = FALSE
    /\ UNCHANGED <<rssiHistory, latestRssi, prediction, confidence, mlFeatures,
                   now, lastMessage, nData, nPred>>
    /\ UNCHANGED <<p0Vars, p1Vars, logVars, floodVars, pipeWindow>>

\* client.on('message') of a connected client
ClientMessage ==
    /\ \E i \in 1..Len(clients) : clients[i].status = "connected"
    /\ \E topic \in Topics, data \in MixedPayloads :
         /\ topic # MQTT_TOPIC_OTHER => nData + nPred < MaxMsgs
         /\ HandleMessage(topic, data)
         /\ lastMessage' = Message(topic, data)
         /\ nData' = IF topic = MQTT_TOPIC_DATA THEN nData + 1 ELSE nData
         /\ nPred' = IF topic = MQTT_TOPIC_PREDICTION THEN nPred + 1 ELSE nPred
    /\ UNCHANGED <<connected, now>>
    /\ UNCHANGED <<p0Vars, p1Vars, logVars, floodVars, pipeWindow, strictVars>>

\* client.on('error', console.error) of any client
ClientError ==
    /\ \E i \in 1..Len(clients) : clients[i].status # "closed"
    /\ UNCHANGED <<appVars, now, lastMessage>>
    /\ UNCHANGED <<p0Vars, extVars>>

NextStrict ==
    \/ MountEffect
    \/ StrictModeMount
    \/ ClientConnect
    \/ ClientClose
    \/ ClientMessage
    \/ ClientError
    \/ Tick

SpecStrict == Init /\ [][NextStrict]_vars

(******************* the prediction pipeline (from the spec) ****************)
\* The pipeline that publishes on esp32/rssi/prediction is not part of the
\* sources; it is modelled from sections 3, 4.1, 4.2, 4.5 and 4.6 of the
\* specification.  Its messages are handled by the dashboard of App.tsx.

\* inbound sample: absent timestamp means "use receipt time"
SampleOf(data, t) == [timestamp |-> Nullish(data.timestamp, t), rssi |-> Get(data.rssi)]

\* WindowBuffer.push
Push(window, sample) == Append(window, sample)

\* WindowBuffer.snapshot(now, span): the samples with timestamp in (t - span, t]
Snapshot(window, t, span) ==
    LET Keep(x) == x.timestamp > t - span /\ x.timestamp <= t
    IN  SelectSeq(window, Keep)

RssiSeq(window) == [i \in 1..Len(window) |-> window[i].rssi]

\* the samples deviating by more than the threshold from the window's mean
SpikeCount(win) ==
    Cardinality({ i \in 1..Len(win) :
                    Abs(Len(win) * win[i] - SeqSum(win)) > SpikeThreshold * Len(win) })

\* FeatureExtractor.extract, numbers in hundredths (spike_count in units)
Extract(win) ==
    LET n == Len(win)
        V == n * SeqSumSq(win) - SeqSum(win) * SeqSum(win)
    IN  [mean_rssi |-> Some(RoundDiv(100 * SeqSum(win), n)),
         std_rssi |-> Some((ISqrt(40000 * V) + n) \div (2 * n)),
         min_rssi |-> Some(100 * SeqMin(win)),
         max_rssi |-> Some(100 * SeqMax(win)),
         range_rssi |-> Some(100 * (SeqMax(win) - SeqMin(win))),
         spike_count |-> Some(SpikeCount(win)),
         spike_rate |-> Some(RoundDiv(10000 * SpikeCount(win), n))]

\* PredictionPublisher.publish: what one tick of the StreamDriver sends
Published(window) ==
    IF Len(window) < PipeMinSamples
    THEN { Payload("object", None, None, Some(StrVal("WAITING")), Some(0), None) }
    ELSE { Payload("object", None, None, Some(StrVal(l)), Some(c),
                   Some(Extract(RssiSeq(window)))) :
             l \in PipeLabels, c \in PipeConfidences }

\* a sample arrives at the pipeline; malformed or without rssi it is dropped
PipeSample ==
    /\ Len(pipeWindow) < MaxPipeSamples
    /\ \E data \in DataPayloads :
         pipeWindow' = IF data.json = "object" /\ IsSome(data.rssi)
                       THEN Push(pipeWindow, SampleOf(data, now))
                       ELSE pipeWindow
    /\ UNCHANGED <<appVars, now, lastMessage, p0Vars, p1Vars, logVars, floodVars, strictVars>>

\* the driver's tick: evict, extract, publish; the dashboard handles the message
PipePublish ==
    /\ connected
    /\ nPred < MaxPred
    /\ pipeWindow' = Snapshot(pipeWindow, now, WindowSpanMs)
    /\ \E data \in Published(pipeWindow') :
         /\ HandlePrediction(data)
         /\ lastMessage' = Message(MQTT_TOPIC_PREDICTION, data)
    /\ nPred' = nPred + 1
    /\ UNCHANGED <<rssiHistory, latestRssi, connected, now, nData>>
    /\ UNCHANGED <<p0Vars, p1Vars, logVars, floodVars, strictVars>>

NextPipe ==
    \/ Connect
    \/ Close
    \/ PipeSample
    \/ PipePublish
    \/ Tick

SpecPipe == Init /\ [][NextPipe]_vars

(********************************* claims **********************************)
\* The step just taken handled a message on the data / prediction topic.
DataStep == nData' = nData + 1
PredictionStep == nPred' = nPred + 1

\* The prediction message last handled was applied (nothing was thrown).
LastPredictionApplied ==
    /\ lastMessage.topic = MQTT_TOPIC_PREDICTION
    /\ lastMessage.payload.json = "object"
    /\ ~PredictionThrows(lastMessage.payload)

\* The fallback computation ran: no ML features and the gate is passed.
FallbackComputed == mlFeatures = None /\ Len(rssiHistory) >= FallbackGate

\* C1: a data-topic message whose payload is not valid JSON or whose object
\* has no rssi field is dropped: rssiHistory and latestRssi keep their values.
C1_DroppedWhenMalformedOrNoRssi ==
    [][(DataStep /\ ~IsSome(lastMessage'.payload.rssi))
         => UNCHANGED <<rssiHistory, latestRssi>>]_vars

\* C2: the prediction state is always one of EMPTY, IDLE, MOVING, WAITING,
\* so stateMap[prediction] is defined at render.
C2_PredictionIsStateMapKey == prediction \in StateMapKeys

\* C3: the confidence state is always an integer in 0..100, in the dashboard
\* and in the earlier variant with the mock predictor.
C3_ConfidenceInRange == confidence \in 0..100 /\ confidenceP0 \in 0..100

\* C4 (as claimed): whenever the prediction state is WAITING the confidence
\* state is 0.
C4_WaitingHasZeroConfidence == prediction = "WAITING" => confidence = 0

\* C4 (amended): the confidence state is 0 before any prediction message and
\* after an applied prediction message that omits confidence, and while the
\* prediction state is WAITING no confidence is displayed.
C4_WaitingShowsNoConfidence ==
    /\ nPred = 0 => prediction = "WAITING" /\ confidence = 0
    /\ (LastPredictionApplied /\ ~IsSome(lastMessage.payload.confidence))
         => confidence = 0
    /\ (LastPredictionApplied /\ ~IsSome(lastMessage.payload.prediction))
         => prediction = "WAITING"
    /\ prediction = "WAITING" => ~ConfidenceShown

\* C4 witness: a message that omits prediction and confidence was applied
\* after one that had set both.
C4_Witness ==
    /\ LastPredictionApplied
    /\ ~IsSome(lastMessage.payload.confidence)
    /\ ~IsSome(lastMessage.payload.prediction)
    /\ nPred = 2
    /\ prediction = "WAITING"

\* C5: on a reconnect ('connect' after a 'close' that followed earlier
\* traffic) the window is reset and the prediction is WAITING, confidence 0.
C5_ReconnectStartsCold ==
    [][(~connected /\ connected' /\ nData + nPred > 0)
         => (rssiHistory' = <<>> /\ prediction' = "WAITING" /\ confidence' = 0)]_vars

\* C6: with fewer than the minimum number of samples received, the
\* prediction is WAITING with confidence 0 (mock predictor of part_000).
C6_NoPredictionBelowMinimum ==
    Len(rssiHistoryP0) < FallbackGate
        => (predictionP0 = "WAITING" /\ confidenceP0 = 0)

\* C7: every sample that contributes to the fallback features is at most
\* 8 seconds older than the computation (the arrival of the newest sample).
C7_WindowIsTimeBounded ==
    FallbackComputed =>
        \A i \in 1..Len(WinPoints(rssiHistory)) :
            WinPoints(rssiHistory)[i].timestamp
                >= rssiHistory[Len(rssiHistory)].timestamp - WindowSpanMs

\* C8: for the window of N >= 1 samples the fallback uses,
\* N*min <= sum <= N*max, range = max - min >= 0, and the displayed mean
\* and range respect the same bounds.
C8_MeanBetweenMinAndMax ==
    FallbackComputed =>
        LET win == Win(rssiHistory)
            N == Len(win)
            lo == SeqMin(win)
            hi == SeqMax(win)
        IN  /\ N >= 1
            /\ N * lo <= SeqSum(win) /\ SeqSum(win) <= N * hi
            /\ ~displayFeatures.mean.dashes
            /\ 100 * lo <= displayFeatures.mean.scaled
            /\ displayFeatures.mean.scaled <= 100 * hi
            /\ ~displayFeatures.range.dashes
            /\ displayFeatures.range.scaled = 100 * (hi - lo)
            /\ displayFeatures.range.scaled >= 0

\* C8 witness: features computed from a window whose samples differ.
C8_Witness ==
    /\ FallbackComputed
    /\ SeqMin(Win(rssiHistory)) < SeqMax(Win(rssiHistory))
    /\ 100 * SeqMin(Win(rssiHistory)) < displayFeatures.mean.scaled
    /\ displayFeatures.mean.scaled < 100 * SeqMax(Win(rssiHistory))

\* C9 (as claimed): with exactly one sample the fallback features are
\* std = 0, range = 0 and mean = that sample's rssi.
C9_OneSampleDegradesToZero ==
    (mlFeatures = None /\ Len(rssiHistory) = 1) =>
        /\ displayFeatures.std = NumStr(0, 2)
        /\ displayFeatures.range = NumStr(0, 1)
        /\ displayFeatures.mean = NumStr(100 * rssiHistory[1].rssi, 1)

\* C9 (amended): with fewer than three samples the fallback features are
\* the sentinel '--'; the values std = 0, range = 0, mean = min = max arise
\* for a computed window whose samples all carry the same rssi.
C9_FewSamplesGiveSentinel ==
    /\ (mlFeatures = None /\ Len(rssiHistory) < FallbackGate) =>
           displayFeatures = [mean |-> Dashes, std |-> Dashes, range |-> Dashes]
    /\ (FallbackComputed /\ SeqMin(Win(rssiHistory)) = SeqMax(Win(rssiHistory))) =>
           /\ displayFeatures.std = NumStr(0, 2)
           /\ displayFeatures.range = NumStr(0, 1)
           /\ displayFeatures.mean = NumStr(100 * SeqMin(Win(rssiHistory)), 1)

\* C9 witness: exactly one sample has been received, no ML features.
C9_Witness ==
    /\ mlFeatures = None
    /\ Len(rssiHistory) = 1
    /\ latestRssi = Some(rssiHistory[1].rssi)

\* C10: a data message {rssi: r} without a timestamp appends exactly one
\* sample, rssi r stamped with the receipt time, at the end of rssiHistory.
C10_NoTimestampAccepted ==
    [][(DataStep /\ lastMessage'.payload.json = "object"
          /\ IsSome(lastMessage'.payload.rssi)
          /\ ~IsSome(lastMessage'.payload.timestamp))
         => LET kept == IF Len(rssiHistory) < HistoryCap
                         THEN rssiHistory ELSE Tail(rssiHistory)
                point == [time |-> ToLocaleTimeString(now),
                          rssi |-> Get(lastMessage'.payload.rssi),
                          timestamp |-> now]
            IN  rssiHistory' = Append(kept, point)]_vars

\* C10 witness: such a message was handled at a receipt time other than 0,
\* after an earlier sample.
C10_Witness ==
    /\ lastMessage.topic = MQTT_TOPIC_DATA
    /\ lastMessage.payload.json = "object"
    /\ IsSome(lastMessage.payload.rssi)
    /\ ~IsSome(lastMessage.payload.timestamp)
    /\ Len(rssiHistory) >= 2
    /\ rssiHistory[Len(rssiHistory)].rssi = Get(lastMessage.payload.rssi)
    /\ rssiHistory[Len(rssiHistory)].timestamp = now
    /\ now > 0

\* C11: for a published window of N >= 1 samples the spike_count the
\* dashboard stores is the number of samples deviating by more than 5 dBm
\* from the window's mean, it is at most N, and the stored spike_rate is
\* 100 * spike_count / N (to the hundredth).
C11_SpikeRateMatchesCount ==
    /\ [](Len(pipeWindow) >= 1
            => LET N == Len(pipeWindow)
                   e == Extract(RssiSeq(pipeWindow))
               IN  /\ Get(e.spike_count) <= N
                   /\ 2 * Abs(Get(e.spike_rate) * N - 10000 * Get(e.spike_count)) <= N)
    /\ [][(PredictionStep /\ Len(pipeWindow') >= PipeMinSamples)
            => LET N == Len(pipeWindow')
                   f == Get(mlFeatures')
               IN  /\ IsSome(mlFeatures')
                   /\ N >= 1
                   /\ f.spikeCount = SpikeCount(RssiSeq(pipeWindow'))
                   /\ f.spikeCount <= N
                   /\ ~f.spikeRate.dashes
                   /\ 2 * Abs(f.spikeRate.scaled * N - 10000 * f.spikeCount) <= N]_vars

\* C11 witness: a window of three samples with one spike was published and
\* the dashboard stored count 1 and rate 33.33.
C11_Witness ==
    /\ lastMessage.topic = MQTT_TOPIC_PREDICTION
    /\ Len(pipeWindow) = 3
    /\ IsSome(mlFeatures)
    /\ Get(mlFeatures).spikeCount = 1
    /\ Get(mlFeatures).spikeRate = NumStr(3333, 2)

\* C14: mlFeatures is null at the start and becomes non-null only by a
\* prediction-topic message that carries features; once non-null it stays
\* non-null (a close, an error, a data message or a later prediction message
\* never resets it); while it is non-null the displayed mean/std/range are
\* its fields, whatever rssiHistory holds and however data messages change it.
C14_MlFeaturesStickyAndPreferred ==
    /\ mlFeatures = None
    /\ [][(mlFeatures = None /\ IsSome(mlFeatures'))
            => (PredictionStep /\ IsSome(lastMessage'.payload.features))]_vars
    /\ [][IsSome(mlFeatures) => IsSome(mlFeatures')]_vars
    /\ [][(IsSome(mlFeatures) /\ DataStep) => displayFeatures' = displayFeatures]_vars
    /\ [](IsSome(mlFeatures)
            => /\ displayFeatures = [mean |-> Get(mlFeatures).mean,
                                     std |-> Get(mlFeatures).std,
                                     range |-> Get(mlFeatures).range]
               /\ displayFeatures = DisplayFeatures(<<>>, mlFeatures))

\* C14 witness: features were received, then the connection closed and the
\* history has enough samples for the fallback, yet the ML features show.
C14_Witness ==
    /\ IsSome(mlFeatures)
    /\ ~connected
    /\ Len(rssiHistory) >= FallbackGate
    /\ lastMessage.topic = MQTT_TOPIC_DATA
    /\ displayFeatures.mean = NumStr(-6625, 2)

\* C17: a prediction-topic message whose handling throws (payload not JSON,
\* JSON null, or a non-string prediction) changes none of prediction,
\* confidence and mlFeatures.
C17_ThrowingPredictionChangesNothing ==
    [][(PredictionStep /\ ~(lastMessage'.payload.json = "object"
                            /\ ~PredictionThrows(lastMessage'.payload)))
         => UNCHANGED <<prediction, confidence, mlFeatures>>]_vars

\* C17 witness: a message with a non-string prediction, a confidence other
\* than the stored one and features was handled while no features were stored.
C17_Witness ==
    /\ lastMessage.topic = MQTT_TOPIC_PREDICTION
    /\ lastMessage.payload.json = "object"
    /\ PredictionThrows(lastMessage.payload)
    /\ IsSome(lastMessage.payload.confidence)
    /\ Get(lastMessage.payload.confidence) # confidence
    /\ IsSome(lastMessage.payload.features)
    /\ mlFeatures = None
    /\ prediction = "MOVING"

\* C19: an applied prediction-topic message without features sets prediction
\* and confidence from the message and leaves mlFeatures unchanged.
C19_NoFeaturesKeepsMlFeatures ==
    [][(PredictionStep
        /\ lastMessage'.payload.json = "object"
        /\ ~PredictionThrows(lastMessage'.payload)
        /\ ~IsSome(lastMessage'.payload.features))
         => /\ prediction' = PredOf(lastMessage'.payload)
            /\ confidence' = ConfidenceOf(lastMessage'.payload)
            /\ UNCHANGED mlFeatures]_vars

\* C19 witness: features are stored and the message handled last carried a
\* prediction and no features, so old features sit next to the new prediction.
C19_Witness ==
    /\ LastPredictionApplied
    /\ ~IsSome(lastMessage.payload.features)
    /\ IsSome(lastMessage.payload.prediction)
    /\ IsSome(mlFeatures)
    /\ prediction = "SITTING"
    /\ displayFeatures.mean = NumStr(-6625, 2)

\* C20: connected is false initially; a connect event makes it true, a close
\* event makes it false, message and error events leave it unchanged, and it
\* changes by no other event.
C20_ConnectedFollowsConnectAndClose ==
    /\ ~connected
    /\ [][/\ Connect => connected'
          /\ Close => ~connected'
          /\ (DataStep \/ PredictionStep \/ MqttError) => UNCHANGED connected
          /\ (connected' # connected) => (Connect \/ Close)]_vars

\* C20 witness: the flag went up, a message was handled, and it went down.
C20_Witness ==
    /\ ~connected
    /\ nData >= 1
    /\ nPred >= 1

\* C18: a message on the data topic leaves prediction, confidence and
\* mlFeatures unchanged; a message on the prediction topic leaves rssiHistory
\* and latestRssi unchanged; a message on any other topic changes none of them.
C18_HandlingFramedByTopic ==
    [][TopicMessage
         => /\ lastMessage'.topic = MQTT_TOPIC_DATA
                 => UNCHANGED <<prediction, confidence, mlFeatures>>
            /\ lastMessage'.topic = MQTT_TOPIC_PREDICTION
                 => UNCHANGED <<rssiHistory, latestRssi>>
            /\ lastMessage'.topic \notin {MQTT_TOPIC_DATA, MQTT_TOPIC_PREDICTION}
                 => UNCHANGED <<rssiHistory, latestRssi, prediction, confidence,
                                mlFeatures, connected>>]_vars

\* C18 witness: a data-topic message that also carries prediction, confidence
\* and features was handled: a sample was appended and the prediction state
\* is still the initial one.
C18_Witness ==
    /\ lastMessage.topic = MQTT_TOPIC_DATA
    /\ IsSome(lastMessage.payload.prediction)
    /\ IsSome(lastMessage.payload.features)
    /\ Len(rssiHistory) = 1
    /\ prediction = "WAITING"
    /\ confidence = 0
    /\ mlFeatures = None

\* C15: rssiHistory never holds more than 120 samples, also counting the
\* updates still queued, and the history of the part_000 variant never holds
\* more than 300, however many messages arrive and however they are batched.
C15_HistoryBounded ==
    /\ Len(rssiHistory) <= HistoryCap
    /\ Len(ApplyUpdates(rssiHistory, updateQueue)) <= HistoryCap
    /\ Len(rssiHistoryP0) <= HistoryKeepP0 + 1

\* C15 witness: more messages than either cap arrived and both histories
\* are full.
C15_Witness ==
    /\ nData > HistoryKeepP0 + 1
    /\ Len(rssiHistory) = HistoryCap
    /\ Len(rssiHistoryP0) = HistoryKeepP0 + 1

\* C16: after n accepted data messages the history (once the queued updates
\* are applied) is the last min(n, 120) accepted samples in arrival order;
\* with nothing queued rssiHistory is that sequence.
C16_HistoryIsLastAccepted ==
    /\ Len(accepted) = nData
    /\ ApplyUpdates(rssiHistory, updateQueue) = SliceLast(accepted, HistoryCap)
    /\ updateQueue = <<>> => rssiHistory = SliceLast(accepted, HistoryCap)
    /\ \A i \in 1..(Len(rssiHistory) - 1) :
         rssiHistory[i].timestamp < rssiHistory[i + 1].timestamp

\* C16 witness: the cap is passed and two callbacks are queued before the
\* next render.
C16_Witness ==
    /\ nData > HistoryCap + MaxQueue
    /\ Len(updateQueue) = MaxQueue
    /\ Len(rssiHistory) = HistoryCap

\* C13: a snapshot leaves the page with exactly the MOVING entries among the
\* 200 newest documents, newest first; no entry of another state is ever shown.
C13_PageShowsNewestMoving ==
    /\ [](\A i \in 1..Len(entries) : entries[i].state = "MOVING")
    /\ [](Len(entries) <= MaxEntries)
    /\ [][OnSnapshot
            => LET n == Len(activityLog)
                   lo == IF n > MaxEntries THEN n - MaxEntries + 1 ELSE 1
                   shown == { entries'[i].id : i \in 1..Len(entries') }
               IN  /\ shown = { j \in lo..n : activityLog[j].state = Some("MOVING") }
                   /\ \A i \in 1..(Len(entries') - 1) :
                        entries'[i].id > entries'[i + 1].id
                   /\ \A i \in 1..Len(entries') :
                        /\ entries'[i].time = activityLog[entries'[i].id].time
                        /\ entries'[i].confidence = activityLog[entries'[i].id].confidence]_vars

\* C13 witness: more than 200 documents; the second-oldest is MOVING and is
\* cut off by the limit, the newest is not MOVING and is filtered out.
C13_Witness ==
    /\ Len(activityLog) = MaxEntries + 2
    /\ activityLog[2].state = Some("MOVING")
    /\ activityLog[Len(activityLog)].state = Some("IDLE")
    /\ activityLog[Len(activityLog) - 1].state = Some("MOVING")
    /\ entries # <<>>
    /\ entries[1].id = Len(activityLog) - 1
    /\ entries[Len(entries)].id >= 3

\* The dashboard detects movement: the effect runs for a prediction that
\* changed to MOVING.
MovementDetected ==
    /\ prediction = "MOVING"
    /\ renderedPrediction # "MOVING"
    /\ renderedPrediction' = "MOVING"

\* C12: every time the dashboard detects movement one document with state
\* MOVING is added to the activity_log collection.
C12_MovementIsLogged ==
    [][MovementDetected
         => /\ Len(activityLog') = Len(activityLog) + 1
            /\ activityLog'[Len(activityLog')].state = Some("MOVING")]_vars

\* C21: at most one client is live, and connected is true exactly when the
\* live client is connected; a close of the ended client does not change that.
C21_ConnectedIffLiveClientConnected ==
    /\ Cardinality({ i \in 1..Len(clients) : Live(clients[i]) }) <= 1
    /\ connected <=> \E i \in 1..Len(clients) :
                        Live(clients[i]) /\ clients[i].status = "connected"

\* The state logged last, '' when nothing was logged.
LastLogged == IF logged = <<>> THEN "" ELSE logged[Len(logged)].state

\* A render saw a prediction other than the previous render's.
PredictionChangeSeen == renderedPrediction' # renderedPrediction

\* C22: an entry is appended to eventLog exactly when a prediction change
\* is to a value that is neither WAITING nor the state logged last, and the
\* entry carries that value; WAITING is never in the log and no two
\* consecutive entries have the same state.
C22_LoggedExactlyOnNewState ==
    /\ [](\A i \in 1..Len(eventLog) : eventLog[i].state # "WAITING")
    /\ [](\A i \in 1..(Len(eventLog) - 1) : eventLog[i].state # eventLog[i + 1].state)
    /\ [][(Len(logged') = Len(logged) + 1)
            <=> (PredictionChangeSeen /\ prediction \notin {"WAITING", LastLogged})]_vars
    /\ [][IF Len(logged') = Len(logged) + 1
          THEN /\ eventLog' # <<>>
               /\ eventLog'[Len(eventLog')].state = prediction
               /\ eventLog'[Len(eventLog')] = logged'[Len(logged')]
          ELSE UNCHANGED <<eventLog, logged>>]_vars

\* C22 witness: MOVING was logged last, a render has seen WAITING since, and
\* the prediction is MOVING again.
C22_Witness ==
    /\ Len(logged) >= 2
    /\ LastLogged = "MOVING"
    /\ renderedPrediction = "WAITING"
    /\ prediction = "MOVING"

\* C23: eventLog never holds more than 20 entries and is the last (up to 20)
\* logged entries in the order they were logged.
C23_EventLogIsLast20 ==
    /\ Len(eventLog) <= EventLogKeepP1 + 1
    /\ eventLog = SliceLast(logged, EventLogKeepP1 + 1)

\* C23 witness: more than 20 entries were logged and the log is full.
C23_Witness ==
    /\ Len(logged) > EventLogKeepP1 + 1
    /\ Len(eventLog) = EventLogKeepP1 + 1

====
